---- MODULE Spec2Model ----
(***************************************************************************)
(* Training dynamics of models/dino.py (class DINO) and the frozen         *)
(* fine-tuning wrapper of models/DinowTwinsFT.py (class DinowTwinsFT).     *)
(*                                                                         *)
(* Parameter tensors are represented by one scalar per sub-module.         *)
(* Values are exact rationals [n |-> numerator, d |-> denominator]; the    *)
(* rounding of floating-point arithmetic is not modelled.                  *)
(***************************************************************************)
EXTENDS Integers, Sequences, FiniteSets, TLC

\* ------------------------------------------------------------------ bounds
MaxEpochs == 2
MaxBatches == 2
MaxValBatches == 1
MaxTestBatches == 1
MaxParam == 2
MaxCrops == 4
MaxWidth == 3
MaxFTSteps == 3

\* ------------------------------------------------------- rational helpers
RECURSIVE GCD(_, _)
GCD(a, b) == IF b = 0 THEN a ELSE GCD(b, a % b)

Abs(x) == IF x < 0 THEN -x ELSE x

\* The value n/d (d > 0) in lowest terms
Rat(n, d) == LET g == GCD(Abs(n), d) IN [n |-> n \div g, d |-> d \div g]

\* Comparison over the least common denominator
RatEq(a, b) ==
    LET g == GCD(a.d, b.d) IN a.n * (b.d \div g) = b.n * (a.d \div g)

RatLeq(a, b) ==
    LET g == GCD(a.d, b.d) IN a.n * (b.d \div g) <= b.n * (a.d \div g)

\* param_k.mul_(m): in-place multiplication of a parameter by the scalar m
mul_(k, m) == Rat(k.n * m.n, k.d * m.d)

\* param_k.add_(x): in-place addition
add_(k, x) ==
    LET g == GCD(k.d, x.d) IN
    Rat(k.n * (x.d \div g) + x.n * (k.d \div g), (k.d \div g) * x.d)

\* Variant: the student term is added without the factor (1 - m)
Undamped(m, q) == Rat(q.n, q.d)

\* (1 - m) * param_q.detach()
OneMinusTimes(m, q) == Rat((m.d - m.n) * q.n, m.d * q.d)

\* one pass of the loop body  param_k.mul_(m).add_((1 - m) * param_q.detach())
EmaUpdate(k, q, m) == add_(mul_(k, m), OneMinusTimes(m, q))

\* ------------------------------------------------------------------ state
VARIABLES
    curr_epoch,         \* DINO.curr_epoch
    curr_iteration,     \* DINO.curr_iteration
    momentum_schedule,  \* DINO.momentum_schedule (0-based array, here 1-based)
    max_epoch,          \* trainer.max_epoch
    niter_per_ep,       \* len(trainer.train_loader)
    student_backbone,   \* parameter of student_backbone
    student_head,       \* parameter of student_head
    teacher_backbone,   \* parameter of teacher_backbone
    teacher_head,       \* parameter of teacher_head
    pc,                 \* position of the training harness
    trainer_epoch,      \* epochs the harness has completed
    batch_idx,          \* training batches processed in the current epoch
    eval_idx,           \* validation / test batches processed in the current loop
    opt_steps,          \* optimizer steps taken so far
    ema_count,          \* EMA updates done so far
    ema_opt_steps,      \* value of opt_steps when the last EMA update read the student
    m_index,            \* index at which the schedule was last read (-1: never)
    loss_calls,         \* calls of _get_loss so far
    loss_epoch,         \* epoch argument of the last call of the loss (-1: never)
    n_global_crops,     \* DINO.n_global_crops
    crops,              \* input of forward
    fwd_out,            \* result of forward: <<student output, teacher output>>
    head_cfg,           \* network_param fields used to build the projection head
    heads,              \* <<student_head layers, teacher_head layers>>
    ft                  \* state of a DinowTwinsFT module

vars == <<curr_epoch, curr_iteration, momentum_schedule, max_epoch, niter_per_ep,
          student_backbone, student_head, teacher_backbone, teacher_head,
          pc, trainer_epoch, batch_idx, eval_idx, opt_steps, ema_count,
          ema_opt_steps, m_index, loss_calls, loss_epoch,
          n_global_crops, crops, fwd_out, head_cfg, heads, ft>>

dinoVars == <<curr_epoch, curr_iteration, momentum_schedule, max_epoch, niter_per_ep,
              student_backbone, student_head, teacher_backbone, teacher_head,
              pc, trainer_epoch, batch_idx, eval_idx, opt_steps, ema_count,
              ema_opt_steps, m_index, loss_calls, loss_epoch>>

fwdVars == <<n_global_crops, crops, fwd_out>>

headVars == <<head_cfg, heads>>

\* ------------------------------------------------- DINO: construction
\* Values an EMA decay factor can take (all inside [0, 1]).
FirstMomenta == {Rat(1, 2), Rat(9, 10)}

SecondMomenta == {Rat(0, 1), Rat(99, 100), Rat(1, 1)}

LaterMomenta == {Rat(1, 2), Rat(1, 1)}

\* cosine_scheduler(**optim_param.scheduler_parameters): the precomputed
\* sequences of decay factors of length len
cosine_scheduler(len) ==
    { [i \in 1..len |-> IF i = 1 THEN m0 ELSE IF i = 2 THEN m1 ELSE mr] :
        m0 \in FirstMomenta, m1 \in SecondMomenta, mr \in LaterMomenta }

ParamValues == 0..MaxParam

\* Gradients the backward pass can produce for the student backbone parameter.
Grads == {-1, 1}

\* Gradient the backward pass produces for the student head parameter.
HeadGrad == -1

\* The gradient slot of a parameter: None, or a one-element tuple <<g>>
None == <<>>

\* DINO.__init__: counters start at 0, the schedule is computed once
DinoInit ==
    /\ curr_epoch = 0
    /\ curr_iteration = 0
    /\ max_epoch \in 1..MaxEpochs
    /\ niter_per_ep \in 1..MaxBatches
    /\ \E len \in {max_epoch * niter_per_ep, max_epoch * niter_per_ep + 1} :
          momentum_schedule \in cosine_scheduler(len)
    /\ student_backbone \in {Rat(v, 1) : v \in ParamValues}
    /\ student_head = Rat(1, 1)
    /\ teacher_backbone \in {Rat(v, 1) : v \in ParamValues}
    /\ teacher_head = Rat(0, 1)
    /\ pc = "train"
    /\ trainer_epoch = 0
    /\ batch_idx = 0
    /\ eval_idx = 0
    /\ opt_steps = 0
    /\ ema_count = 0
    /\ ema_opt_steps = 0
    /\ m_index = -1
    /\ loss_calls = 0
    /\ loss_epoch = -1

\* ------------------------------------------------- DINO: steps
\* momentum_schedule[i]; an index past the end raises IndexError
InRange(i) == i < Len(momentum_schedule)

ScheduleAt(i) == momentum_schedule[i + 1]

\* Variant: the loss is called with the iteration counter
get_loss_iter ==
    /\ loss_calls' = loss_calls + 1
    /\ loss_epoch' = curr_iteration

\* _get_loss: forward, then the loss is called with self.curr_epoch
get_loss ==
    /\ loss_calls' = loss_calls + 1
    /\ loss_epoch' = curr_epoch

\* Variant: the counter is advanced twice per batch
IncrIterationTwice(it) == it + 2

\* The iteration counter after "self.curr_iteration += 1"
IncrIteration(it) == it + 1

\* The student parameter read by the EMA loop: the current tensor, detached
EmaSource(q) == q

\* training_step: increment, loss, EMA update of the teacher (or IndexError)
training_step ==
    /\ pc = "train"
    /\ batch_idx < niter_per_ep
    /\ curr_iteration' = IncrIteration(curr_iteration)
    /\ get_loss
    /\ m_index' = curr_iteration'
    /\ IF InRange(curr_iteration')
       THEN LET m == ScheduleAt(curr_iteration') IN
            /\ teacher_backbone' = EmaUpdate(teacher_backbone, EmaSource(student_backbone), m)
            /\ teacher_head' = EmaUpdate(teacher_head, EmaSource(student_head), m)
            /\ ema_count' = ema_count + 1
            /\ ema_opt_steps' = opt_steps
            /\ pc' = "optimize"
       ELSE /\ pc' = "aborted"
            /\ UNCHANGED <<teacher_backbone, teacher_head, ema_count, ema_opt_steps>>
    /\ UNCHANGED <<curr_epoch, momentum_schedule, max_epoch, niter_per_ep,
                   student_backbone, student_head, trainer_epoch, batch_idx,
                   eval_idx, opt_steps>>

\* configure_optimizers: the optimizer is built over self.parameters()
configure_optimizers ==
    {"student_backbone", "student_head", "teacher_backbone", "teacher_head"}

\* Gradients left by the backward pass of the loss returned by training_step:
\* the teacher output is the target of the loss and receives no gradient.
dino_loss_backward(gb, gh) ==
    [student_backbone |-> <<gb>>, student_head |-> <<gh>>,
     teacher_backbone |-> None, teacher_head |-> None]

\* optimizer.step() on one parameter: parameters without gradient are skipped
OptimizerWrite(name, p, grads) ==
    IF name \in configure_optimizers /\ grads[name] # None
    THEN Rat(p.n - grads[name][1] * p.d, p.d)
    ELSE p

\* backward + optimizer.step of the batch whose training_step has returned
optimizer_step ==
    /\ pc = "optimize"
    /\ \E gb \in Grads :
         LET grads == dino_loss_backward(gb, HeadGrad) IN
         /\ student_backbone' = OptimizerWrite("student_backbone", student_backbone, grads)
         /\ student_head' = OptimizerWrite("student_head", student_head, grads)
         /\ teacher_backbone' = OptimizerWrite("teacher_backbone", teacher_backbone, grads)
         /\ teacher_head' = OptimizerWrite("teacher_head", teacher_head, grads)
    /\ opt_steps' = opt_steps + 1
    /\ batch_idx' = batch_idx + 1
    /\ pc' = IF batch_idx + 1 = niter_per_ep THEN "validate" ELSE "train"
    /\ UNCHANGED <<curr_epoch, curr_iteration, momentum_schedule, max_epoch,
                   niter_per_ep, trainer_epoch, eval_idx, ema_count,
                   ema_opt_steps, m_index, loss_calls, loss_epoch>>

\* Variant: the validation step also runs the EMA loop of the training step
validation_step_ema ==
    /\ pc = "validate"
    /\ eval_idx < MaxValBatches
    /\ loss_calls' = loss_calls + 1
    /\ loss_epoch' = curr_epoch
    /\ eval_idx' = eval_idx + 1
    /\ IF InRange(curr_iteration)
       THEN LET m == ScheduleAt(curr_iteration) IN
            /\ teacher_backbone' = EmaUpdate(teacher_backbone, student_backbone, m)
            /\ teacher_head' = EmaUpdate(teacher_head, student_head, m)
       ELSE UNCHANGED <<teacher_backbone, teacher_head>>
    /\ UNCHANGED <<curr_epoch, curr_iteration, momentum_schedule, max_epoch,
                   niter_per_ep, student_backbone, student_head,
                   pc, trainer_epoch, batch_idx, opt_steps,
                   ema_count, ema_opt_steps, m_index>>

\* validation_step: loss only
validation_step ==
    /\ pc = "validate"
    /\ eval_idx < MaxValBatches
    /\ get_loss
    /\ eval_idx' = eval_idx + 1
    /\ UNCHANGED <<curr_epoch, curr_iteration, momentum_schedule, max_epoch,
                   niter_per_ep, student_backbone, student_head, teacher_backbone,
                   teacher_head, pc, trainer_epoch, batch_idx, opt_steps,
                   ema_count, ema_opt_steps, m_index>>

\* The epoch counter after "self.curr_epoch += 1"
IncrEpoch(e) == e + 1

\* on_epoch_end: called by the harness once the batches of the epoch are done
on_epoch_end ==
    /\ pc = "validate"
    /\ eval_idx = MaxValBatches
    /\ curr_epoch' = IncrEpoch(curr_epoch)
    /\ trainer_epoch' = trainer_epoch + 1
    /\ batch_idx' = 0
    /\ eval_idx' = 0
    /\ pc' = IF trainer_epoch + 1 = max_epoch THEN "test" ELSE "train"
    /\ UNCHANGED <<curr_iteration, momentum_schedule, max_epoch, niter_per_ep,
                   student_backbone, student_head, teacher_backbone, teacher_head,
                   opt_steps, ema_count, ema_opt_steps, m_index, loss_calls,
                   loss_epoch>>

\* test_step: loss only
test_step ==
    /\ pc = "test"
    /\ eval_idx < MaxTestBatches
    /\ get_loss
    /\ eval_idx' = eval_idx + 1
    /\ UNCHANGED <<curr_epoch, curr_iteration, momentum_schedule, max_epoch,
                   niter_per_ep, student_backbone, student_head, teacher_backbone,
                   teacher_head, pc, trainer_epoch, batch_idx, opt_steps,
                   ema_count, ema_opt_steps, m_index>>


\* ------------------------------------------------- DINO: forward
\* A network applied to one crop (a batch of rows): a bias-free linear map
\* with weight w, the identity when w = 1
Net(w, x) == [i \in 1..Len(x) |-> Rat(w.n * x[i].n, w.d * x[i].d)]

\* Variant: the teacher sees the first n_global_crops crops
FirstGlobal(cs) == SubSeq(cs, 1, IF Len(cs) < n_global_crops THEN Len(cs) ELSE n_global_crops)

\* crops[:2]
FirstTwo(cs) == SubSeq(cs, 1, IF Len(cs) < 2 THEN Len(cs) ELSE 2)

\* The loop "for x in cs: out = backbone(x); full = torch.cat((full, out))"
RECURSIVE CatBackbone(_, _)
CatBackbone(w, cs) ==
    IF cs = <<>> THEN <<>>
    ELSE CatBackbone(w, SubSeq(cs, 1, Len(cs) - 1)) \o Net(w, cs[Len(cs)])

\* forward: the student sees every crop, the teacher the first two
forward(cs) ==
    <<Net(student_head, CatBackbone(student_backbone, cs)),
      Net(teacher_head, CatBackbone(teacher_backbone, FirstTwo(cs)))>>

\* ------------------------------------------------- DINO: projection head
Linear(i, o) == [kind |-> "Linear", in_features |-> i, out_features |-> o, bias |-> FALSE]

GELU == [kind |-> "GELU"]

\* self.head_in_features = 0
head_in_features == 0

\* Index of the layer the loop treats as the last one
LastLayerIndex(cfg) == cfg.proj_channels - 1

\* The layers appended by iteration i of the loop
LayersOf(cfg, i) ==
    <<IF i = 0 THEN Linear(head_in_features, cfg.proj_channels)
      ELSE IF i = LastLayerIndex(cfg) THEN Linear(cfg.proj_channels, cfg.out_channels)
      ELSE Linear(cfg.proj_channels, cfg.proj_channels)>>
    \o (IF i < 2 THEN <<GELU>> ELSE <<>>)

\* proj_layers after iterations 0 .. n-1 of the loop
RECURSIVE ProjLayers(_, _)
ProjLayers(cfg, n) ==
    IF n = 0 THEN <<>> ELSE ProjLayers(cfg, n - 1) \o LayersOf(cfg, n - 1)

\* student_head and teacher_head are built from the same layer list
construct_heads ==
    /\ heads = <<>>
    /\ heads' = <<ProjLayers(head_cfg, head_cfg.proj_layers),
                  ProjLayers(head_cfg, head_cfg.proj_layers)>>
    /\ UNCHANGED <<dinoVars, fwdVars, head_cfg, ft>>

\* forward called on the crops of a batch
forward_call ==
    /\ fwd_out = <<>>
    /\ fwd_out' = forward(crops)
    /\ UNCHANGED <<dinoVars, n_global_crops, crops, headVars, ft>>

\* ------------------------------------------------- DinowTwinsFT
Param(v, rg) == [v |-> v, requires_grad |-> rg, grad |-> None]

\* Variant: the flag is left as it was
requires_grad_kept(p, flag) == p

\* Module.requires_grad_(False) on one parameter
requires_grad_(p, flag) == [p EXCEPT !.requires_grad = flag]

\* DinowTwinsFT.__init__: the pretrained network (fresh or loaded from the
\* checkpoint) is frozen, the linear classifier is created trainable
FTConstruct(vb, vh, vl) ==
    [backbone |-> requires_grad_(Param(vb, TRUE), FALSE),
     head |-> requires_grad_(Param(vh, TRUE), FALSE),
     linear |-> Param(vl, TRUE),
     pc |-> "step",
     steps |-> 0,
     loss_calls |-> 0]

\* self.parameters(): pretrained sub-network and linear classifier
ft_configure_optimizers == {"backbone", "head", "linear"}

\* loss.backward(): a gradient is accumulated in the parameters that require one
Accumulate(p, g) ==
    IF p.requires_grad
    THEN [p EXCEPT !.grad = IF p.grad = None THEN <<g>> ELSE <<p.grad[1] + g>>]
    ELSE p

\* optimizer.step() then zero_grad(): parameters without gradient are skipped
FTOptimizerWrite(name, p) ==
    IF name \in ft_configure_optimizers /\ p.grad # None
    THEN [p EXCEPT !.v = p.v - p.grad[1], !.grad = None]
    ELSE p

\* training_step: forward and loss of one batch
ft_training_step ==
    /\ ft.pc = "step"
    /\ ft.steps < MaxFTSteps
    /\ ft' = [ft EXCEPT !.pc = "backward", !.loss_calls = ft.loss_calls + 1]
    /\ UNCHANGED <<dinoVars, fwdVars, headVars>>

\* backward pass of the loss returned by training_step
ft_backward ==
    /\ ft.pc = "backward"
    /\ \E gb \in Grads, gh \in Grads, gl \in Grads :
         ft' = [ft EXCEPT !.backbone = Accumulate(ft.backbone, gb),
                          !.head = Accumulate(ft.head, gh),
                          !.linear = Accumulate(ft.linear, gl),
                          !.pc = "optimize"]
    /\ UNCHANGED <<dinoVars, fwdVars, headVars>>

\* optimizer step over the parameters handed over by configure_optimizers
ft_optimizer_step ==
    /\ ft.pc = "optimize"
    /\ ft' = [ft EXCEPT !.backbone = FTOptimizerWrite("backbone", ft.backbone),
                        !.head = FTOptimizerWrite("head", ft.head),
                        !.linear = FTOptimizerWrite("linear", ft.linear),
                        !.pc = "step",
                        !.steps = ft.steps + 1]
    /\ UNCHANGED <<dinoVars, fwdVars, headVars>>

\* validation_step: forward and loss, no backward
ft_validation_step ==
    /\ ft.pc = "step"
    /\ ft.loss_calls < 2 * MaxFTSteps
    /\ ft' = [ft EXCEPT !.loss_calls = ft.loss_calls + 1]
    /\ UNCHANGED <<dinoVars, fwdVars, headVars>>

\* ------------------------------------------------- specifications
DefaultHeadCfg == [in_features |-> 1, proj_channels |-> 3, out_channels |-> 2, proj_layers |-> 3]

\* Parts of the state a specification does not exercise
IdleForward == n_global_crops = 2 /\ crops = <<>> /\ fwd_out = <<>>

IdleHead ==
    /\ head_cfg = DefaultHeadCfg
    /\ heads = <<ProjLayers(DefaultHeadCfg, 3), ProjLayers(DefaultHeadCfg, 3)>>

IdleFT == ft = FTConstruct(0, 0, 0)

IdleTrainer ==
    /\ curr_epoch = 0
    /\ curr_iteration = 0
    /\ max_epoch = 1
    /\ niter_per_ep = 1
    /\ momentum_schedule = <<Rat(9, 10)>>
    /\ pc = "train"
    /\ trainer_epoch = 0
    /\ batch_idx = 0
    /\ eval_idx = 0
    /\ opt_steps = 0
    /\ ema_count = 0
    /\ ema_opt_steps = 0
    /\ m_index = -1
    /\ loss_calls = 0
    /\ loss_epoch = -1

IdleDino ==
    /\ IdleTrainer
    /\ student_backbone = Rat(1, 1)
    /\ student_head = Rat(1, 1)
    /\ teacher_backbone = Rat(1, 1)
    /\ teacher_head = Rat(1, 1)

\* A DINO module driven through fit (training, validation, epoch end) and test
Init == DinoInit /\ IdleForward /\ IdleHead /\ IdleFT

Next ==
    \/ training_step /\ UNCHANGED <<fwdVars, headVars, ft>>
    \/ optimizer_step /\ UNCHANGED <<fwdVars, headVars, ft>>
    \/ validation_step /\ UNCHANGED <<fwdVars, headVars, ft>>
    \/ on_epoch_end /\ UNCHANGED <<fwdVars, headVars, ft>>
    \/ test_step /\ UNCHANGED <<fwdVars, headVars, ft>>

Spec == Init /\ [][Next]_vars

\* forward applied to crop sequences
Rows == {Rat(v, 1) : v \in 1..3}

CropSeqs == UNION { [1..k -> {<<r>> : r \in Rows}] : k \in 1..MaxCrops }

Weights == {Rat(1, 1), Rat(2, 1)}

InitForward ==
    /\ IdleTrainer /\ IdleHead /\ IdleFT
    /\ student_backbone \in Weights
    /\ student_head \in Weights
    /\ teacher_backbone \in Weights
    /\ teacher_head \in Weights
    /\ n_global_crops \in 1..3
    /\ crops \in CropSeqs
    /\ fwd_out = <<>>

NextForward == forward_call

SpecForward == InitForward /\ [][NextForward]_vars

\* construction of the projection heads
HeadCfgs ==
    [in_features : 1..MaxWidth, proj_channels : 1..MaxWidth,
     out_channels : 1..MaxWidth, proj_layers : 1..3]

InitHead ==
    /\ IdleDino /\ IdleForward /\ IdleFT
    /\ head_cfg \in HeadCfgs
    /\ heads = <<>>

NextHead == construct_heads

SpecHead == InitHead /\ [][NextHead]_vars

\* a DinowTwinsFT module driven through training and validation steps
InitFT ==
    /\ IdleDino /\ IdleForward /\ IdleHead
    /\ \E vb \in ParamValues, vh \in ParamValues, vl \in ParamValues :
          ft = FTConstruct(vb, vh, vl)

NextFT ==
    \/ ft_training_step
    \/ ft_backward
    \/ ft_optimizer_step
    \/ ft_validation_step

SpecFT == InitFT /\ [][NextFT]_vars

\* ------------------------------------------------- properties
Between(x, a, b) ==
    \/ RatLeq(a, x) /\ RatLeq(x, b)
    \/ RatLeq(b, x) /\ RatLeq(x, a)

\* m * k + (1 - m) * q over a common denominator
Blend(m, k, q) ==
    Rat(m.n * k.n * q.d + (m.d - m.n) * q.n * k.d, m.d * k.d * q.d)

\* C1: every EMA update done so far was preceded by the optimizer step of its
\* own iteration, and the student values it blended were the ones produced by
\* that step (the ema_count-th optimizer step).
C1_EmaAfterStudentStep ==
    ema_count > 0 => (ema_count <= opt_steps /\ ema_opt_steps = ema_count)

C3_IterationCounter ==
    [][/\ curr_iteration' # curr_iteration
            => /\ pc = "train"
               /\ curr_iteration' = curr_iteration + 1
               /\ m_index' = curr_iteration + 1
       /\ (pc = "train" /\ pc' # "train") => curr_iteration' = curr_iteration + 1
       /\ (trainer_epoch = 0 /\ trainer_epoch' = 1) => curr_iteration' = niter_per_ep
      ]_vars

C3_Witness ==
    /\ trainer_epoch = 1
    /\ niter_per_ep = 2
    /\ curr_iteration = 2
    /\ loss_calls > 2

\* C4: in a fresh run with schedule [0.9, 0.99], student parameter 2.0 and
\* teacher parameter 0.0, the first training step leaves the teacher at 0.2.
C4_FirstEmaUsesEntryZero ==
    [][(/\ curr_iteration = 0
        /\ momentum_schedule = <<Rat(9, 10), Rat(99, 100)>>
        /\ student_backbone = Rat(2, 1)
        /\ teacher_backbone = Rat(0, 1)
        /\ ema_count' = 1)
         => RatEq(teacher_backbone', Rat(2, 10))]_vars

C6_ForwardCrops ==
    (fwd_out # <<>> /\ Len(crops) >= 2) =>
        /\ Len(fwd_out[1]) = Len(crops)
        /\ Len(fwd_out[2]) = 2
        /\ \A i \in 1..Len(crops) :
              RatEq(fwd_out[1][i],
                    Rat(student_head.n * student_backbone.n * crops[i][1].n,
                        student_head.d * student_backbone.d * crops[i][1].d))
        /\ \A i \in 1..2 :
              RatEq(fwd_out[2][i],
                    Rat(teacher_head.n * teacher_backbone.n * crops[i][1].n,
                        teacher_head.d * teacher_backbone.d * crops[i][1].d))
        /\ (/\ Len(crops) = 4
            /\ student_backbone = Rat(1, 1) /\ student_head = Rat(1, 1)
            /\ teacher_backbone = Rat(1, 1) /\ teacher_head = Rat(1, 1))
             => /\ fwd_out[1] = <<crops[1][1], crops[2][1], crops[3][1], crops[4][1]>>
                /\ fwd_out[2] = <<crops[1][1], crops[2][1]>>

C6_Witness ==
    /\ fwd_out # <<>>
    /\ Len(crops) = 4
    /\ n_global_crops = 3
    /\ crops[1] # crops[2]
    /\ student_backbone = Rat(1, 1) /\ student_head = Rat(1, 1)
    /\ teacher_backbone = Rat(1, 1) /\ teacher_head = Rat(1, 1)

\* C7: the pretrained parameters never require a gradient, never hold one and
\* never change; every optimizer step changes the linear classifier.
C7_PretrainedFrozen ==
    [][/\ ~ft.backbone.requires_grad /\ ~ft.head.requires_grad
       /\ ~ft'.backbone.requires_grad /\ ~ft'.head.requires_grad
       /\ ft'.backbone.grad = None /\ ft'.head.grad = None
       /\ ft'.backbone.v = ft.backbone.v
       /\ ft'.head.v = ft.head.v
       /\ ft.pc = "optimize" => ft'.linear.v # ft.linear.v
      ]_vars

C7_Witness ==
    /\ ft.steps >= 2
    /\ ft.pc = "step"
    /\ ft.linear.v # 0

\* C8: an EMA update sets each teacher parameter to m*teacher + (1-m)*student
\* with m the schedule entry that was read, the result lies between the old
\* teacher value and the student value, and the student is not modified.
C8_EmaConvex ==
    [][ema_count' = ema_count + 1 =>
         LET m == ScheduleAt(m_index') IN
         /\ RatLeq(Rat(0, 1), m) /\ RatLeq(m, Rat(1, 1))
         /\ RatEq(teacher_backbone', Blend(m, teacher_backbone, student_backbone))
         /\ RatEq(teacher_head', Blend(m, teacher_head, student_head))
         /\ Between(teacher_backbone', teacher_backbone, student_backbone)
         /\ Between(teacher_head', teacher_head, student_head)
         /\ student_backbone' = student_backbone
         /\ student_head' = student_head
      ]_vars

C8_Witness ==
    /\ ema_count = 2
    /\ pc = "optimize"
    /\ ScheduleAt(m_index) = Rat(1, 2)
    /\ ~RatEq(teacher_backbone, student_backbone)
    /\ ~RatEq(teacher_head, student_head)

\* C9: with dino_proj_layers = 3 both heads are Linear(in_features -> proj),
\* GELU, Linear(proj -> proj), GELU, Linear(proj -> out), all without bias.
C9_HeadArchitecture ==
    (heads # <<>> /\ head_cfg.proj_layers = 3) =>
        /\ heads[1] = <<Linear(head_cfg.in_features, head_cfg.proj_channels), GELU,
                        Linear(head_cfg.proj_channels, head_cfg.proj_channels), GELU,
                        Linear(head_cfg.proj_channels, head_cfg.out_channels)>>
        /\ heads[2] = heads[1]

\* C10: when the schedule holds max_epoch * niter_per_ep entries, every read of
\* the schedule is inside it and the run is never aborted.
C10_ScheduleIndexInRange ==
    Len(momentum_schedule) = max_epoch * niter_per_ep =>
        (m_index < Len(momentum_schedule) /\ pc # "aborted")

====
